---------------------------- MODULE Spec2Model ----------------------------
(***************************************************************************)
(* A model of src/bmwgroupcodingtaskakash.py: the Handler class that turns *)
(* a sales prompt into model codes, a boolean formula and a date.          *)
(*                                                                         *)
(* Python strings are TLA+ strings; a character is a string of length 1    *)
(* (SubSeq(s, i, i)).  The linguistic annotator (spaCy), the fuzzy         *)
(* similarity primitive and the date search are libraries outside the      *)
(* repository: the annotator's output is an input of the model (a          *)
(* sequence of annotated tokens), the similarity scores are computed for   *)
(* the cases in which they are exact (equality, containment), and the      *)
(* date search is a table over the entity texts of the model's prompts.    *)
(***************************************************************************)
EXTENDS Integers, Sequences, FiniteSets, TLC

(***************************************************************************)
(* Python string primitives                                                *)
(***************************************************************************)
Ch(s, i) == SubSeq(s, i, i)

UpperLetters == "ABCDEFGHIJKLMNOPQRSTUVWXYZ"

LowerLetters == "abcdefghijklmnopqrstuvwxyz"

Digits == "0123456789"

\* the characters of the string s
Chars(s) == {Ch(s, i) : i \in 1..Len(s)}

UpperSet == Chars(UpperLetters)

\* the lower-case letter of each upper-case letter
LowerMap ==
  [c \in UpperSet |->
     Ch(LowerLetters, CHOOSE i \in 1..Len(UpperLetters) : Ch(UpperLetters, i) = c)]

LowerChar(c) == IF c \in UpperSet THEN LowerMap[c] ELSE c

RECURSIVE LowerFrom(_, _)
LowerFrom(s, i) ==
  IF i > Len(s) THEN "" ELSE LowerChar(Ch(s, i)) \o LowerFrom(s, i + 1)

\* str.lower()
Lower(s) == LowerFrom(s, 1)

\* s[i : i + len(p)] == p   (1-based i)
StartsAt(p, s, i) == i + Len(p) - 1 <= Len(s) /\ SubSeq(s, i, i + Len(p) - 1) = p

\* p in s
Contains(p, s) == \E i \in 1..(Len(s) - Len(p) + 1) : StartsAt(p, s, i)

RECURSIVE ReplaceAllFrom(_, _, _)
ReplaceAllFrom(s, p, i) ==
  IF i > Len(s) THEN ""
  ELSE IF StartsAt(p, s, i) THEN ReplaceAllFrom(s, p, i + Len(p))
  ELSE Ch(s, i) \o ReplaceAllFrom(s, p, i + 1)

\* s.replace(p, "") for a non-empty p
ReplaceAll(s, p) == ReplaceAllFrom(s, p, 1)

\* s.replace(p, "", 1) for a non-empty p
ReplaceFirst(s, p) ==
  IF Contains(p, s)
  THEN LET i == CHOOSE k \in 1..Len(s) :
                  StartsAt(p, s, k) /\ \A j \in 1..(k - 1) : ~StartsAt(p, s, j)
       IN SubSeq(s, 1, i - 1) \o SubSeq(s, i + Len(p), Len(s))
  ELSE s

RECURSIVE SplitWsFrom(_, _, _)
SplitWsFrom(s, i, cur) ==
  IF i > Len(s) THEN (IF cur = "" THEN <<>> ELSE <<cur>>)
  ELSE IF Ch(s, i) = " "
       THEN (IF cur = "" THEN <<>> ELSE <<cur>>) \o SplitWsFrom(s, i + 1, "")
       ELSE SplitWsFrom(s, i + 1, cur \o Ch(s, i))

\* s.split(): the words of s, split on runs of white space
SplitWs(s) == SplitWsFrom(s, 1, "")

RECURSIVE JoinFrom(_, _, _)
JoinFrom(sep, parts, i) ==
  IF i > Len(parts) THEN ""
  ELSE IF i = Len(parts) THEN parts[i]
  ELSE parts[i] \o sep \o JoinFrom(sep, parts, i + 1)

\* sep.join(parts)
Join(sep, parts) == JoinFrom(sep, parts, 1)

Range(f) == {f[i] : i \in DOMAIN f}

(***************************************************************************)
(* The catalogs, in insertion order (a dict iterates in insertion order)   *)
(***************************************************************************)
model_codes_dic ==
  << [key |-> "21CF", value |-> "iX xDrive50"],
     [key |-> "11CF", value |-> "iX xDrive40"],
     [key |-> "21EM", value |-> "X7 xDrive40i"],
     [key |-> "21EN", value |-> "X7 xDrive40d"],
     [key |-> "DZ01", value |-> "M8"],
     [key |-> "28FF", value |-> "318i"] >>

abbreviations_dic ==
  << [key |-> "LL", value |-> "Left-Hand Drive"],
     [key |-> "RL", value |-> "Right-Hand Drive"],
     [key |-> "P337A", value |-> "M Sport Package"],
     [key |-> "P33BA", value |-> "M Sport Package Pro"],
     [key |-> "P7LGA", value |-> "Comfort Package EU"],
     [key |-> "S402A", value |-> "Panorama Glass Roof"],
     [key |-> "S407A", value |-> "Panorama Glass Roof Sky Lounge"],
     [key |-> "S403A", value |-> "Sunroof"] >>

(***************************************************************************)
(* The annotated document.  A token carries the features the code reads:   *)
(* text, pos (POS), dep (DEP), oov (is_oov), ent (the label of the entity  *)
(* the token forms, "" for none) and sp (a blank follows the token in the  *)
(* text).  The tokenizer is non-destructive: doc.text is the handler's     *)
(* text.                                                                   *)
(***************************************************************************)
RECURSIVE TextFrom(_, _)
TextFrom(toks, i) ==
  IF i > Len(toks) THEN ""
  ELSE toks[i].text \o (IF toks[i].sp THEN " " ELSE "") \o TextFrom(toks, i + 1)

\* the text a token sequence spells
TextOf(toks) == TextFrom(toks, 1)

\* nlp(self.text): the annotation of the lower-cased prompt
DocOf(toks) == [i \in 1..Len(toks) |-> [toks[i] EXCEPT !.text = Lower(toks[i].text)]]

(***************************************************************************)
(* Handler.validator, lines 141-148: the vocabulary loop                   *)
(***************************************************************************)
\* ''.join(self.model_codes_dic.values()).lower()
CatalogText == Lower(Join("", [i \in 1..Len(model_codes_dic) |-> model_codes_dic[i].value]))

OovMessage(t) == "Prompt has some Out-of Vocabulary words: " \o t \o ", Please check!"

\* the loop from token i on, with the handler's response and message so far
RECURSIVE VocabularyLoop(_, _, _, _)
VocabularyLoop(doc, i, resp, msg) ==
  IF i > Len(doc) THEN [response |-> resp, message |-> msg]
  ELSE IF doc[i].oov
       THEN IF ~Contains(doc[i].text, CatalogText)
            THEN [response |-> 0, message |-> msg \o ". " \o OovMessage(doc[i].text)]
            ELSE [response |-> resp, message |-> msg]
       ELSE VocabularyLoop(doc, i + 1, 1, msg)

(***************************************************************************)
(* Handler.get_model_codes, lines 200-240                                  *)
(***************************************************************************)
\* for i in dic: if dic[i] == value: append(i)
KeysOfModel(value) ==
  LET hit(e) == e.value = value
      sel == SelectSeq(model_codes_dic, hit)
  IN [i \in 1..Len(sel) |-> sel[i].key]

\* lines 208-213: the exact pass over the catalog values from index i on
RECURSIVE ExactPass(_, _, _)
ExactPass(i, text, codes) ==
  IF i > Len(model_codes_dic) THEN [text |-> text, codes |-> codes]
  ELSE LET value == model_codes_dic[i].value
           low == Lower(value)
       IN IF Contains(low, text)
          THEN ExactPass(i + 1, ReplaceAll(text, low), codes \o KeysOfModel(value))
          ELSE ExactPass(i + 1, text, codes)

\* fuzz.ratio(v, word) == 100: the ratio 2M/T of the two strings is 100 exactly
\* when they are equal
RatioIs100(v, word) == v = word

\* lines 218-228: for each value only lst[0] is compared (the unconditional break)
RECURSIVE FuzzyPass(_, _, _)
FuzzyPass(i, words, codes) ==
  IF i > Len(model_codes_dic) THEN codes
  ELSE LET value == model_codes_dic[i].value
           v == SplitWs(Lower(value))[1]
       IN IF \E k \in 1..Len(words) : RatioIs100(v, words[k])
          THEN FuzzyPass(i + 1, words, codes \o KeysOfModel(value))
          ELSE FuzzyPass(i + 1, words, codes)

\* the method: fault is the exception caught at line 235 (max() of no scores)
get_model_codes(text) ==
  LET ex == ExactPass(1, text, <<>>)
      words == SplitWs(ReplaceAll(ex.text, ","))
  IN IF Len(ex.text) > 0
     THEN IF words = <<>>
          THEN [fault |-> TRUE, error |-> "max() arg is an empty sequence",
                model_code |-> <<>>, rest |-> ex.text, exact |-> ex.codes]
          ELSE [fault |-> FALSE, error |-> "",
                model_code |-> FuzzyPass(1, words, ex.codes), rest |-> ex.text,
                exact |-> ex.codes]
     ELSE [fault |-> FALSE, error |-> "", model_code |-> ex.codes, rest |-> ex.text,
           exact |-> ex.codes]

(***************************************************************************)
(* Handler.get_boolean_formula, lines 258-421                              *)
(***************************************************************************)
\* line 271: the POS tags kept in the abbreviation string
DescPos == {"PROPN", "NOUN", "VERB", "ADJ", "CCONJ", "PUNCT"}

\* line 275: the DEP labels and the texts of a conjunction cue
CueDep == {"cc", "punct"}

CueText == {"and", "or", ",", "."}

\* line 271: desc_str
DescStr(doc) ==
  LET kept(t) == t.pos \in DescPos
      sel == SelectSeq(doc, kept)
  IN Join(" ", [i \in 1..Len(sel) |-> sel[i].text])

\* line 275: list(conj_df['TEXT'])
ConjList(doc) ==
  LET cue(t) == t.dep \in CueDep /\ t.text \in CueText
      sel == SelectSeq(doc, cue)
  IN [i \in 1..Len(sel) |-> sel[i].text]

\* the regex class \w on the characters of the model's prompts
WordChars == Chars(LowerLetters) \cup Chars(UpperLetters) \cup Chars(Digits) \cup {"_"}

IsWordChar(c) == c \in WordChars

\* the regex assertion \b in front of the character at position p (1..Len(s)+1)
WordBoundary(s, p) ==
  LET before == IF p - 1 >= 1 /\ p - 1 <= Len(s) THEN IsWordChar(Ch(s, p - 1)) ELSE FALSE
      after == IF p >= 1 /\ p <= Len(s) THEN IsWordChar(Ch(s, p)) ELSE FALSE
  IN before # after

\* The length of the match of split_regex at position i, 0 for none.  The
\* alternatives are \bW\b for each cue W of the document, then "," and "\.":
\* a comma or a full stop matches anywhere, "and"/"or" between word boundaries
\* and only when the cue list holds that word.
MatchLen(s, i, cues) ==
  IF Ch(s, i) \in {",", "."} THEN 1
  ELSE IF \E w \in (Range(cues) \ {",", "."}) :
            StartsAt(w, s, i) /\ WordBoundary(s, i) /\ WordBoundary(s, i + Len(w))
       THEN Len(CHOOSE w \in (Range(cues) \ {",", "."}) :
                  StartsAt(w, s, i) /\ WordBoundary(s, i) /\ WordBoundary(s, i + Len(w)))
       ELSE 0

RECURSIVE RegexSplitFrom(_, _, _, _)
RegexSplitFrom(s, i, cur, cues) ==
  IF i > Len(s) THEN <<cur>>
  ELSE LET n == MatchLen(s, i, cues)
       IN IF n > 0 THEN <<cur>> \o RegexSplitFrom(s, i + n, "", cues)
          ELSE RegexSplitFrom(s, i + 1, cur \o Ch(s, i), cues)

\* lines 280-289 and 339-348: [s] without cues, else re.split(split_regex, s)
SplitSentence(s, cues) ==
  IF Len(cues) = 0 THEN <<s>> ELSE RegexSplitFrom(s, 1, "", cues)

\* fuzz.partial_ratio(a, b): 0 for an empty string, 100 when the shorter string
\* occurs in the longer one.  The other scores are the library's; the prompts of
\* the model hold no near miss (a pair scoring 85..99), so they are below the
\* threshold there and stand as 0.
PartialRatio(a, b) ==
  IF a = "" \/ b = "" THEN 0
  ELSE IF (Len(a) <= Len(b) /\ Contains(a, b)) \/ (Len(b) < Len(a) /\ Contains(b, a))
       THEN 100
       ELSE 0

\* line 304: the breaking criterion
Threshold == 85

\* lines 299 and 313: value.lower() of each phrase of the catalog
LowerValues ==
  [i \in 1..Len(abbreviations_dic) |-> Lower(abbreviations_dic[i].value)]

\* line 300: value.lower().replace(" ", "")
JoinedValues == [i \in 1..Len(abbreviations_dic) |-> ReplaceAll(LowerValues[i], " ")]

\* line 313: value.lower().split()
ValueWords == [i \in 1..Len(abbreviations_dic) |-> SplitWs(LowerValues[i])]

\* lines 298-301
SimilarityScores(seg) ==
  [i \in 1..Len(abbreviations_dic) |-> PartialRatio(JoinedValues[i], seg)]

\* max(similarity_scores), lines 304 and 308
MaxOf(scores) == CHOOSE m \in Range(scores) : \A x \in Range(scores) : x <= m

\* line 308: the index of the last score equal to m
LastIndexOf(scores, m) ==
  CHOOSE i \in 1..Len(scores) :
    scores[i] = m /\ \A j \in (i + 1)..Len(scores) : scores[j] # m

\* line 308: len(scores) - scores[::-1].index(max(scores)) - 1
LastMaxIndex(scores) == LastIndexOf(scores, MaxOf(scores))

\* lines 313-315: remove the first occurrence of each word of the phrase
RECURSIVE RemoveWords(_, _, _)
RemoveWords(seg, words, i) ==
  IF i > Len(words) THEN seg ELSE RemoveWords(ReplaceFirst(seg, words[i]), words, i + 1)

\* lines 308-315 for the phrase idx: hang when the iteration leaves the segment
\* unchanged (the same scores are computed for ever)
RECURSIVE ResolveLoop(_, _)
ResolveStep(seg, idx, next) ==
  IF next = seg THEN [key |-> abbreviations_dic[idx].key, hang |-> TRUE]
  ELSE ResolveLoop(next, abbreviations_dic[idx].key)

ResolveAt(seg, idx) == ResolveStep(seg, idx, RemoveWords(seg, ValueWords[idx], 1))

ResolveScores(seg, key, scores) ==
  IF MaxOf(scores) < Threshold THEN [key |-> key, hang |-> FALSE]
  ELSE ResolveAt(seg, LastMaxIndex(scores))

\* lines 296-315: the while loop on one segment
ResolveLoop(seg, key) == ResolveScores(seg, key, SimilarityScores(seg))

\* lines 293-318: one slot per segment of the filtered description
ResolveSegments(segs) ==
  [i \in 1..Len(segs) |-> ResolveLoop(ReplaceAll(segs[i], " "), "")]

\* lines 321-322
synonym_w ==
  {"with", "accompanied", "company", "together", "addition", "including", "along",
   "amidst", "among", "amid", "having", "in"}

synonym_wo ==
  {"without", "lacking", "deprived", "not", "missing", "destitute", "bereft",
   "deficient", "void", "unaccompanied", "except", "exclusive"}

\* lines 330: 1 if the arc spans more than one token
Needed(width) == IF width > 1 THEN 1 ELSE 0

\* lines 325-336: arcs are the widths (end - start) of the arcs labelled cc
Grouping(cues, arcs) ==
  IF Cardinality(Range(cues) \cap {"and", "or"}) > 1
  THEN IF Len(arcs) < 2
       THEN [fault |-> TRUE, first |-> FALSE, second |-> FALSE]
       ELSE IF Needed(arcs[1]) > Needed(arcs[2])
            THEN [fault |-> FALSE, first |-> FALSE, second |-> TRUE]
            ELSE [fault |-> FALSE, first |-> TRUE, second |-> FALSE]
  ELSE [fault |-> FALSE, first |-> FALSE, second |-> FALSE]

\* lines 369, 376, 387, 394: the slots whose key occurs in the formula so far
Tot(formula, matches) ==
  Cardinality({i \in 1..Len(matches) : matches[i] # "" /\ Contains(matches[i], formula)})

\* a polarity that tests the positive cues first
PolarityPositiveFirst(words, opertor) ==
  IF synonym_w \cap Range(words) # {} THEN "+"
  ELSE IF synonym_wo \cap Range(words) # {} THEN "-"
  ELSE opertor

\* lines 359-364
Polarity(words, opertor) ==
  IF synonym_wo \cap Range(words) # {} THEN "-"
  ELSE IF synonym_w \cap Range(words) # {} THEN "+"
  ELSE opertor

\* lines 368-380: the bracket in front of the key
OpenBracket(formula, matches, first, second) ==
  LET b1 == IF first THEN (IF Tot(formula, matches) = 0 THEN "(" ELSE "") ELSE ""
  IN IF second THEN (IF Tot(formula, matches) = 1 /\ Len(formula) > 0 THEN "(" ELSE "")
     ELSE b1

\* lines 386-398: the bracket behind the key
CloseBracket(formula, matches, first, second) ==
  LET b1 == IF first THEN (IF Tot(formula, matches) = 1 /\ Len(formula) > 0 THEN ")" ELSE "")
            ELSE ""
  IN IF second THEN (IF Tot(formula, matches) = 2 /\ Len(formula) > 0 THEN ")" ELSE "")
     ELSE b1

\* lines 352-401: the loop from segment k on (k = ind + 1); st holds the formula,
\* the operator carried over and the pieces emitted so far
RECURSIVE AssemblyLoop(_, _, _, _, _, _)
AssemblyLoop(k, segs, cues, matches, grp, st) ==
  IF k > Len(segs) THEN st
  ELSE IF k > 1 /\ k - 1 > Len(cues) THEN [st EXCEPT !.fault = TRUE]
  ELSE LET conj == IF k > 1 /\ cues[k - 1] = "or" THEN "/" ELSE ""
           op == Polarity(SplitWs(segs[k]), st.opertor)
       IN IF k > Len(matches) THEN [st EXCEPT !.fault = TRUE, !.opertor = op]
          ELSE IF Len(matches[k]) > 0
               THEN LET open == OpenBracket(st.formula, matches, grp.first, grp.second)
                        f1 == st.formula \o conj \o op \o open
                        close == CloseBracket(f1, matches, grp.first, grp.second)
                    IN AssemblyLoop(k + 1, segs, cues, matches, grp,
                         [st EXCEPT !.formula = f1 \o matches[k] \o close,
                                    !.opertor = op,
                                    !.emitted = Append(@, [ind |-> k, conj |-> conj,
                                                  sign |-> op, open |-> open,
                                                  key |-> matches[k], close |-> close])])
               ELSE AssemblyLoop(k + 1, segs, cues, matches, grp, [st EXCEPT !.opertor = op])

\* lines 404-407: append the keys the formula does not hold, each behind the
\* formula's first character; fault is the index error on an empty formula
RECURSIVE Repair(_, _, _)
Repair(i, matches, formula) ==
  IF i > Len(matches) THEN [fault |-> FALSE, formula |-> formula]
  ELSE IF ~Contains(matches[i], formula)
       THEN IF formula = "" THEN [fault |-> TRUE, formula |-> formula]
            ELSE Repair(i + 1, matches, formula \o Ch(formula, 1) \o matches[i])
       ELSE Repair(i + 1, matches, formula)

\* line 318: the keys of the slots
KeysOf(slots) == [i \in 1..Len(slots) |-> slots[i].key]

\* the state of the assembly loop at line 350
LoopStart == [formula |-> "", opertor |-> "", emitted |-> <<>>, fault |-> FALSE]

\* lines 410-421: what the method stores (formula) and its locals when it ends.
\* fault: an exception reached line 415; hang: the while loop of line 296 never
\* ends; assembled: the formula at the end of the loop of line 352.
FormulaResult(cues, descSegs, slots, grp, segs, loop, rep) ==
  [hang |-> \E i \in 1..Len(slots) : slots[i].hang,
   fault |-> (\A i \in 1..Len(slots) : ~slots[i].hang)
             /\ (grp.fault \/ loop.fault \/ rep.fault),
   error |-> IF grp.fault \/ loop.fault THEN "list index out of range"
             ELSE IF rep.fault THEN "string index out of range" ELSE "",
   formula |-> IF (\E i \in 1..Len(slots) : slots[i].hang)
                  \/ grp.fault \/ loop.fault \/ rep.fault
               THEN "" ELSE rep.formula,
   cues |-> cues, descSegs |-> descSegs, matches |-> KeysOf(slots), segs |-> segs,
   first |-> grp.first, second |-> grp.second, grouped |-> ~grp.fault,
   emitted |-> IF grp.fault THEN <<>> ELSE loop.emitted,
   assembled |-> IF grp.fault \/ loop.fault THEN "" ELSE loop.formula,
   looped |-> ~grp.fault /\ ~loop.fault]

\* lines 403-407 on the formula the loop built
FormulaAfterLoop(cues, descSegs, slots, grp, segs, loop) ==
  FormulaResult(cues, descSegs, slots, grp, segs, loop,
                Repair(1, KeysOf(slots), loop.formula))

\* lines 350-401 on the slots, the grouping and the segments of the text
FormulaAfterResolve(cues, descSegs, slots, grp, segs) ==
  FormulaAfterLoop(cues, descSegs, slots, grp, segs,
                   AssemblyLoop(1, segs, cues, KeysOf(slots), grp, LoopStart))

\* lines 280-348 on the cues, the filtered description and the text
FormulaFromSegments(cues, descSegs, text, arcs) ==
  FormulaAfterResolve(cues, descSegs, ResolveSegments(descSegs), Grouping(cues, arcs),
                      SplitSentence(text, cues))

FormulaFromCues(cues, desc, text, arcs) ==
  FormulaFromSegments(cues, SplitSentence(desc, cues), text, arcs)

\* the method on the document, the handler's text and the widths of the cc arcs
get_boolean_formula(doc, text, arcs) ==
  FormulaFromCues(ConjList(doc), DescStr(doc), text, arcs)

(***************************************************************************)
(* Handler.get_parsed_dates, lines 438-463                                 *)
(***************************************************************************)
\* line 440: the texts of the entities labelled DATE or CARDINAL
DateEntities(doc) ==
  LET isDate(t) == t.ent = "DATE" \/ t.ent = "CARDINAL"
      sel == SelectSeq(doc, isDate)
  IN [i \in 1..Len(sel) |-> sel[i].text]

\* search_dates(entity, PREFER_DAY_OF_MONTH) followed by strftime('%Y-%m-%d') on
\* the last hit, over the entity texts of the model's prompts; "" stands for
\* None (no date found)
SearchDates(entity, prefer) ==
  IF entity = "2024-03-15" THEN "2024-03-15"
  ELSE IF entity = "2024-11" THEN (IF prefer = "last" THEN "2024-11-30" ELSE "2024-11-01")
  ELSE ""

get_parsed_dates(doc, text) ==
  LET dt == DateEntities(doc)
      prefer == IF {"late", "latter", "end"} \cap Range(SplitWs(text)) # {}
                THEN "last" ELSE "first"
  IN IF Len(dt) = 0
     THEN [fault |-> TRUE, error |-> "list index out of range", dates |-> ""]
     ELSE IF SearchDates(dt[Len(dt)], prefer) = ""
          THEN [fault |-> TRUE, error |-> "'NoneType' object is not subscriptable",
                dates |-> ""]
          ELSE [fault |-> FALSE, error |-> "", dates |-> SearchDates(dt[Len(dt)], prefer)]

(***************************************************************************)
(* Handler.get_request_body, lines 479-501.  shape tells the Python value  *)
(* returned: "record" a dict with modelTypeCodes, booleanFormulas and      *)
(* dates, "list" a list of such dicts, "message" a dict with the one key   *)
(* message.  No statement of the try block can raise on the handler's      *)
(* fields (model_code[0] is read only when the list has one element), so   *)
(* the handler of line 496 is never entered.                               *)
(***************************************************************************)
StripChars == {".", " "}

RECURSIVE LStrip(_)
LStrip(s) == IF Len(s) > 0 /\ Ch(s, 1) \in StripChars THEN LStrip(SubSeq(s, 2, Len(s))) ELSE s

RECURSIVE RStrip(_)
RStrip(s) ==
  IF Len(s) > 0 /\ Ch(s, Len(s)) \in StripChars THEN RStrip(SubSeq(s, 1, Len(s) - 1)) ELSE s

\* self.message.strip(". ")
Strip(s) == RStrip(LStrip(s))

Record(code, formula, date) ==
  [modelTypeCodes |-> <<code>>, booleanFormulas |-> <<formula>>, dates |-> <<date>>]

\* a request body that keeps the single-record branch for every list of codes
get_request_body_single(resp, codes, formula, date, msg) ==
  IF resp = 1
  THEN [shape |-> "record", records |-> <<Record(codes[1], formula, date)>>,
        message |-> <<>>]
  ELSE [shape |-> "message", records |-> <<>>, message |-> <<Strip(msg)>>]

get_request_body(resp, codes, formula, date, msg) ==
  IF resp = 1
  THEN IF Len(codes) = 1
       THEN [shape |-> "record", records |-> <<Record(codes[1], formula, date)>>,
             message |-> <<>>]
       ELSE [shape |-> "list",
             records |-> [i \in 1..Len(codes) |-> Record(codes[i], formula, date)],
             message |-> <<>>]
  ELSE [shape |-> "message", records |-> <<>>, message |-> <<Strip(msg)>>]

(***************************************************************************)
(* The prompts of the model.  A prompt is what the user types, as the      *)
(* token sequence the annotator makes of it, and the widths of the cc arcs *)
(* the dependency parse reports for it.                                    *)
(***************************************************************************)
Tok(text, pos, dep, oov, ent, sp) ==
  [text |-> text, pos |-> pos, dep |-> dep, oov |-> oov, ent |-> ent, sp |-> sp]

\* the longest prompt of the pipeline specification, in tokens
MaxTokens == 3

\* the most clauses of a prompt of the formula specification
MaxClauses == 3

\* the widest cc arc
MaxWidth == 3

PipelineTokens ==
  { Tok("M8", "PROPN", "ROOT", FALSE, "", TRUE),
    Tok("M8", "PROPN", "ROOT", TRUE, "", TRUE),
    Tok("X7", "PROPN", "compound", FALSE, "", TRUE),
    Tok("Sunroof", "NOUN", "dobj", FALSE, "", TRUE),
    Tok("zzz", "NOUN", "dep", TRUE, "", TRUE),
    Tok("Pro", "PROPN", "appos", TRUE, "", TRUE),
    Tok("Roof", "NOUN", "dobj", FALSE, "", TRUE),
    Tok("2024-03-15", "NUM", "nummod", FALSE, "DATE", TRUE),
    Tok(",", "PUNCT", "punct", FALSE, "", TRUE) }

\* the token sequences of length 0..n over the set S
RECURSIVE SeqsUpTo(_, _)
SeqsUpTo(S, n) ==
  IF n = 0 THEN {<<>>}
  ELSE LET shorter == SeqsUpTo(S, n - 1)
       IN shorter \cup {Append(q, t) : q \in {x \in shorter : Len(x) = n - 1}, t \in S}

\* the prompt may or may not end in a blank
Endings(toks) ==
  IF Len(toks) = 0 THEN {toks}
  ELSE {toks, [toks EXCEPT ![Len(toks)].sp = FALSE]}

PipelinePrompts == UNION {Endings(q) : q \in SeqsUpTo(PipelineTokens, MaxTokens)}

With == Tok("with", "ADP", "prep", FALSE, "", TRUE)

Without == Tok("without", "ADP", "prep", FALSE, "", TRUE)

Not == Tok("not", "PART", "neg", FALSE, "", TRUE)

SunroofTok == Tok("Sunroof", "NOUN", "pobj", FALSE, "", TRUE)

Seats == Tok("seats", "NOUN", "pobj", FALSE, "", TRUE)

\* "Left-Hand Drive" is four tokens: left, -, hand, drive
LeftHandDrive ==
  << Tok("Left", "ADJ", "amod", FALSE, "", FALSE),
     Tok("-", "PUNCT", "punct", FALSE, "", FALSE),
     Tok("Hand", "NOUN", "compound", FALSE, "", TRUE),
     Tok("Drive", "NOUN", "pobj", FALSE, "", TRUE) >>

\* a number with a decimal point: one token, a CARDINAL entity no date is found in
Decimal == Tok("1.5", "NUM", "nummod", FALSE, "CARDINAL", TRUE)

Clauses ==
  { <<With, SunroofTok>>,
    <<SunroofTok>>,
    <<Without>> \o LeftHandDrive,
    <<With, Seats>>,
    <<Not, With, SunroofTok>>,
    <<Decimal>> }

And == Tok("and", "CCONJ", "cc", FALSE, "", TRUE)

Or == Tok("or", "CCONJ", "cc", FALSE, "", TRUE)

Comma == Tok(",", "PUNCT", "punct", FALSE, "", TRUE)

Underscore(sp) == Tok("_", "PUNCT", "punct", FALSE, "", sp)

\* the cues between two clauses; the last one is "_and_", which the tokenizer
\* splits into three tokens and the regex \band\b does not match in the text
Cues ==
  { <<And>>, <<Or>>, <<Comma>>,
    <<Underscore(FALSE), [And EXCEPT !.sp = FALSE], Underscore(TRUE)>> }

RECURSIVE ClauseChains(_)
ClauseChains(n) ==
  IF n = 1 THEN Clauses
  ELSE LET shorter == ClauseChains(n - 1)
       IN {q \o c \o cl : q \in shorter, c \in Cues, cl \in Clauses}

FormulaPrompts ==
  {<<Tok("M8", "PROPN", "ROOT", FALSE, "", TRUE)>> \o q :
      q \in UNION {ClauseChains(n) : n \in 1..MaxClauses}}

\* The widths of the cc arcs of a parse.  The code reads the first two and only
\* when the cues hold both "and" and "or"; the parse of such a prompt may
\* report one arc (a cue merged with the punctuation behind it) or more.
ArcsOf(toks) ==
  LET cues == ConjList(DocOf(toks))
  IN IF {"and", "or"} \subseteq Range(cues)
     THEN {<<1>>} \cup [1..2 -> 1..MaxWidth]
     ELSE {[i \in 1..Len(SelectSeq(toks, LAMBDA t : t.dep = "cc")) |-> 1]}

(***************************************************************************)
(* The state: the prompt typed and its parse (prompt, arcs), the handler's *)
(* fields, the position of the run (pc), the stages the validator entered  *)
(* (stages), the locals of get_model_codes and get_boolean_formula when    *)
(* they ended (mc, fm), the value the caller's get_request_body returned   *)
(* (ret) and the test of the command-line loop (brk).                      *)
(***************************************************************************)
VARIABLES prompt, arcs, text, response, message, dates, model_code,
          boolean_formula, pc, stages, mc, fm, ret, brk

vars == <<prompt, arcs, text, response, message, dates, model_code,
          boolean_formula, pc, stages, mc, fm, ret, brk>>

fields == <<text, response, message, dates, model_code, boolean_formula>>

NoModelCodes ==
  [ran |-> FALSE, fault |-> FALSE, error |-> "", model_code |-> <<>>, rest |-> "",
   exact |-> <<>>]

NoFormula ==
  [ran |-> FALSE, hang |-> FALSE, fault |-> FALSE, error |-> "", formula |-> "",
   cues |-> <<>>, descSegs |-> <<>>, matches |-> <<>>, segs |-> <<>>,
   first |-> FALSE, second |-> FALSE, grouped |-> FALSE, emitted |-> <<>>,
   assembled |-> "", looped |-> FALSE]

NoValue == [shape |-> "none", records |-> <<>>, message |-> <<>>]

InitWith(prompts) ==
  /\ prompt \in prompts
  /\ arcs \in ArcsOf(prompt)
  /\ text = ""
  /\ response = 0
  /\ message = ""
  /\ dates = ""
  /\ model_code = <<>>
  /\ boolean_formula = ""
  /\ pc = "new"
  /\ stages = <<>>
  /\ mc = NoModelCodes
  /\ fm = NoFormula
  /\ ret = NoValue
  /\ brk = FALSE

Init == InitWith(PipelinePrompts)

\* The state in front of line 159 for a prompt of the formula specification:
\* no token is out of vocabulary and the text names a model, so the first two
\* stages have left the status valid and no message.
InitFormula ==
  /\ prompt \in FormulaPrompts
  /\ arcs \in ArcsOf(prompt)
  /\ text = Lower(TextOf(prompt))
  /\ response = 1
  /\ message = ""
  /\ dates = ""
  /\ model_code = <<"DZ01">>
  /\ boolean_formula = ""
  /\ pc = "get_boolean_formula"
  /\ stages = <<"vocabulary", "get_model_codes">>
  /\ mc = NoModelCodes
  /\ fm = NoFormula
  /\ ret = NoValue
  /\ brk = FALSE

\* get_doc(), lines 119-122: the parse of self.text
get_doc == DocOf(prompt)

\* what str(e) is when the annotator fails
AnnotatorError == "[E050] Can't find model 'en_core_web_md'"

\* a validator without the guards: every stage runs whatever the status
StageGuardAlways(resp) == TRUE

\* the guard in front of each stage after the first: lines 151, 159, 167, 174
StageGuard(resp) == resp = 1

\* lines 177-182: the handler of validator's try block
ValidatorExcept(msg, error) ==
  msg \o ". " \o "Error while validating the prompts" \o ". " \o error

\* Handler(string), lines 71-77 and the get_doc() of line 102, which is outside
\* every try block: when the annotator fails the exception leaves __init__
Construct ==
  /\ pc = "new"
  /\ text' = Lower(TextOf(prompt))
  /\ response' = 0
  /\ message' = ""
  /\ dates' = ""
  /\ model_code' = <<>>
  /\ boolean_formula' = ""
  /\ \E docFault \in BOOLEAN : pc' = IF docFault THEN "raised" ELSE "vocabulary"
  /\ UNCHANGED <<prompt, arcs, stages, mc, fm, ret, brk>>

\* validator, lines 141-148
Vocabulary ==
  /\ pc = "vocabulary"
  /\ LET r == VocabularyLoop(get_doc, 1, response, message)
     IN /\ response' = r.response
        /\ message' = r.message
  /\ stages' = Append(stages, "vocabulary")
  /\ pc' = "get_model_codes"
  /\ UNCHANGED <<prompt, arcs, text, dates, model_code, boolean_formula, mc, fm, ret, brk>>

\* a stage whose guard is false is passed over
Skip(here, next) ==
  /\ pc = here
  /\ ~StageGuard(response)
  /\ pc' = next
  /\ UNCHANGED <<prompt, arcs, fields, stages, mc, fm, ret, brk>>

\* the get_doc() of a stage fails: lines 177-182 end the validator
DocFault(here) ==
  /\ pc = here
  /\ StageGuard(response)
  /\ response' = 0
  /\ message' = ValidatorExcept(message, AnnotatorError)
  /\ stages' = Append(stages, here)
  /\ pc' = "constructed"
  /\ UNCHANGED <<prompt, arcs, text, dates, model_code, boolean_formula, mc, fm, ret, brk>>

\* lines 153-156 behind get_model_codes, whose result is r
ModelCodesEnd(r, codes, msg1) ==
  /\ model_code' = codes
  /\ response' = IF Len(codes) = 0 THEN 0 ELSE IF r.fault THEN 0 ELSE 1
  /\ message' = IF Len(codes) = 0
                THEN msg1 \o ". "
                     \o "Prompt doesn't include one of the sales description provided, Please check!"
                ELSE msg1
  /\ mc' = [ran |-> TRUE] @@ r

\* lines 230-240: what get_model_codes leaves in self.model_code and self.message
ModelCodesStore(r) ==
  ModelCodesEnd(r,
    IF r.fault THEN model_code ELSE r.model_code,
    IF r.fault
    THEN message \o ". "
         \o "Error encountered while parsing for model code in 'get_model_codes' method"
         \o ". " \o r.error
    ELSE message)

\* validator, lines 151-156, with get_model_codes
ModelCodes ==
  /\ pc = "get_model_codes"
  /\ StageGuard(response)
  /\ ModelCodesStore(get_model_codes(TextOf(get_doc)))
  /\ stages' = Append(stages, "get_model_codes")
  /\ pc' = "get_boolean_formula"
  /\ UNCHANGED <<prompt, arcs, text, dates, boolean_formula, fm, ret, brk>>

\* lines 410-421 and 161-164 behind get_boolean_formula, whose result is r; a
\* run whose while loop never ends stays in the method
BooleanFormulaStore(r) ==
  /\ fm' = [ran |-> TRUE] @@ r
  /\ IF r.hang
     THEN /\ pc' = "hung"
          /\ UNCHANGED <<response, message, boolean_formula>>
     ELSE /\ boolean_formula' = r.formula
          /\ response' = IF Len(r.formula) = 0 THEN 0 ELSE 1
          /\ message' =
               (IF r.fault
                THEN message \o ". "
                     \o "Error encountered while parsing for a valid abbreviation description in 'get_boolean_formula' method"
                     \o ". " \o r.error
                ELSE message)
               \o (IF Len(r.formula) = 0
                   THEN ". " \o "Prompt doesn't include a valid abbreviation description, Please check!"
                   ELSE "")
          /\ pc' = "get_parsed_dates"

\* validator, lines 159-164, with get_boolean_formula
BooleanFormula ==
  /\ pc = "get_boolean_formula"
  /\ StageGuard(response)
  /\ BooleanFormulaStore(get_boolean_formula(get_doc, text, arcs))
  /\ stages' = Append(stages, "get_boolean_formula")
  /\ UNCHANGED <<prompt, arcs, text, dates, model_code, mc, ret, brk>>

\* lines 169-172 behind get_parsed_dates, whose result is r
ParsedDatesEnd(r, d, msg1) ==
  /\ dates' = d
  /\ response' = IF Len(d) = 0 THEN 0 ELSE IF r.fault THEN 0 ELSE 1
  /\ message' = IF Len(d) = 0
                THEN msg1 \o ". " \o "Prompt doesn't include a valid date, Please check!"
                ELSE msg1

\* lines 453-463: what get_parsed_dates leaves in self.dates and self.message
ParsedDatesStore(r) ==
  ParsedDatesEnd(r,
    IF r.fault THEN dates ELSE r.dates,
    IF r.fault
    THEN message \o ". "
         \o "Error encountered while parsing for date in 'get_parse_dates' method"
         \o ". " \o r.error
    ELSE message)

\* validator, lines 167-172, with get_parsed_dates
ParsedDates ==
  /\ pc = "get_parsed_dates"
  /\ StageGuard(response)
  /\ ParsedDatesStore(get_parsed_dates(get_doc, text))
  /\ stages' = Append(stages, "get_parsed_dates")
  /\ pc' = "get_request_body"
  /\ UNCHANGED <<prompt, arcs, text, model_code, boolean_formula, mc, fm, ret, brk>>

\* validator, lines 174-175: the value of this call is dropped
RequestBody ==
  /\ pc = "get_request_body"
  /\ StageGuard(response)
  /\ stages' = Append(stages, "get_request_body")
  /\ pc' = "constructed"
  /\ UNCHANGED <<prompt, arcs, fields, mc, fm, ret, brk>>

\* line 511: the caller's obj.get_request_body()
CallerRequestBody ==
  /\ pc = "constructed"
  /\ ret' = get_request_body(response, model_code, boolean_formula, dates, message)
  /\ pc' = "returned"
  /\ UNCHANGED <<prompt, arcs, fields, stages, mc, fm, brk>>

\* line 516: the loop ends on this test; otherwise it asks for the next prompt,
\* which a new run from an initial state interprets
LoopTest ==
  /\ pc = "returned"
  /\ brk' = (Len(message) = 0 \/ response = 1)
  /\ pc' = "done"
  /\ UNCHANGED <<prompt, arcs, fields, stages, mc, fm, ret>>

Next ==
  \/ Construct
  \/ Vocabulary
  \/ ModelCodes
  \/ BooleanFormula
  \/ ParsedDates
  \/ RequestBody
  \/ \E here \in {"get_model_codes", "get_boolean_formula", "get_parsed_dates"} : DocFault(here)
  \/ Skip("get_model_codes", "get_boolean_formula")
  \/ Skip("get_boolean_formula", "get_parsed_dates")
  \/ Skip("get_parsed_dates", "get_request_body")
  \/ Skip("get_request_body", "constructed")
  \/ CallerRequestBody
  \/ LoopTest

Spec == Init /\ [][Next]_vars

\* the formula stage alone, from the state in front of it
NextFormula == BooleanFormula

SpecFormula == InitFormula /\ [][NextFormula]_vars


(***************************************************************************)
(* Properties of the validator and of the request body (Spec)              *)
(***************************************************************************)
StageOrder ==
  <<"vocabulary", "get_model_codes", "get_boolean_formula", "get_parsed_dates",
    "get_request_body">>

\* the stages entered so far are the first stages of the fixed order
InOrder ==
  /\ Len(stages) <= Len(StageOrder)
  /\ \A i \in 1..Len(stages) : stages[i] = StageOrder[i]

\* a stage has run and has left the status failed
StageFailed == Len(stages) > 0 /\ response = 0

\* C1: the stages run in the fixed order vocabulary, get_model_codes,
\* get_boolean_formula, get_parsed_dates, get_request_body; once a stage has left
\* the status failed, no step enters another stage and no step sets the status
\* back to valid.
C1_ShortCircuit ==
  /\ []InOrder
  /\ [][StageFailed => (response' = 0 /\ stages' = stages)]_vars

\* the model-code stage failed and the run ended without entering a later stage
C1_Witness ==
  pc = "done" /\ response = 0 /\ stages = <<"vocabulary", "get_model_codes">>

\* the lower-cased concatenation of the phrase values of both catalogs
BothCatalogsText ==
  Lower(Join("", [i \in 1..Len(model_codes_dic) |-> model_codes_dic[i].value]
                 \o [i \in 1..Len(abbreviations_dic) |-> abbreviations_dic[i].value]))

\* the tokens that are neither in the vocabulary nor contained in the catalogs
Uncovered ==
  {i \in 1..Len(get_doc) :
     get_doc[i].oov /\ ~Contains(get_doc[i].text, BothCatalogsText)}

FirstUncovered == CHOOSE i \in Uncovered : \A j \in Uncovered : i <= j

\* C2: behind the vocabulary stage the status is valid if and only if every
\* token is in the vocabulary or contained in the catalogs' text; otherwise the
\* status is failed and the message names the first uncovered token.
C2_VocabularyIff ==
  pc = "get_model_codes" =>
    IF Uncovered = {} THEN response = 1
    ELSE /\ response = 0
         /\ message = ". " \o OovMessage(get_doc[FirstUncovered].text)

\* C3: no run leaves the constructor or get_request_body with an exception.
C3_NeverUnwinds == pc # "raised"

\* the run has returned the caller's request body
Finished == pc \in {"returned", "done"}

\* C4: the request body of a finished run is, for a valid status, one record for
\* each model code in order (at least one), each with the handler's non-empty
\* formula and non-empty date and no message; for a failed status it is a
\* message payload without a record.
C4_Shapes ==
  Finished =>
    IF response = 1
    THEN /\ ret.shape \in {"record", "list"}
         /\ Len(ret.records) >= 1
         /\ Len(ret.records) = Len(model_code)
         /\ \A i \in 1..Len(ret.records) :
              /\ DOMAIN ret.records[i] = {"modelTypeCodes", "booleanFormulas", "dates"}
              /\ ret.records[i].modelTypeCodes = <<model_code[i]>>
              /\ ret.records[i].booleanFormulas = <<boolean_formula>>
              /\ ret.records[i].dates = <<dates>>
         /\ boolean_formula # ""
         /\ dates # ""
         /\ ret.message = <<>>
    ELSE /\ ret.shape = "message"
         /\ ret.records = <<>>
         /\ Len(ret.message) = 1

\* a valid run with two model codes has returned a list of two records
C4_Witness ==
  pc = "done" /\ response = 1 /\ Len(model_code) = 2 /\ ret.shape = "list"
  /\ Len(ret.records) = 2

\* C5: a finished run with a failed status has a message, the payload returned
\* is not empty, and the test of the command-line loop is true only for a valid
\* status.
C5_Explained ==
  /\ (Finished /\ response = 0) => (Len(message) > 0 /\ ret.message # <<"">>)
  /\ (pc = "done" /\ brk) => response = 1

\* the catalog phrases the handler's text holds verbatim
VerbatimPhrases ==
  {i \in 1..Len(model_codes_dic) : Contains(Lower(model_codes_dic[i].value), text)}

\* C6: when the text holds exactly one catalog model phrase verbatim,
\* get_model_codes ends without a fault and resolves the key of that phrase and
\* no other key.
C6_ExactlyOneKey ==
  (mc.ran /\ Cardinality(VerbatimPhrases) = 1) =>
    /\ ~mc.fault
    /\ mc.model_code = <<model_codes_dic[CHOOSE i \in VerbatimPhrases : TRUE].key>>

(***************************************************************************)
(* Properties of the formula stage (SpecFormula)                           *)
(***************************************************************************)
\* the positions at which p occurs in s
Occurrences(p, s) == {i \in 1..(Len(s) - Len(p) + 1) : StartsAt(p, s, i)}

\* a occurs in s, b occurs behind it, and a "/" stands between them
SlashBetween(a, b, s) ==
  \E i \in Occurrences(a, s), j \in Occurrences("/", s), k \in Occurrences(b, s) :
    i + Len(a) <= j /\ j < k

\* a occurs in s and b occurs behind it
InThisOrder(a, b, s) ==
  \E i \in Occurrences(a, s), k \in Occurrences(b, s) : i + Len(a) <= k

\* the matched slots whose segment stands right behind an "or" cue
SlotsBehindOr ==
  {i \in 2..Len(fm.matches) :
     fm.matches[i] # "" /\ i - 1 <= Len(fm.cues) /\ fm.cues[i - 1] = "or"}

\* the "/" stands in front of the key, with at most a sign and a bracket between
SlashInFront(key, s) ==
  \E sign \in {"", "+", "-"}, bracket \in {"", "("} :
    Contains("/" \o sign \o bracket \o key, s)

\* the description has two segments, both matched (with different keys), and
\* the one cue w between them
TwoJoinedBy(w) ==
  /\ fm.cues = <<w>>
  /\ Len(fm.matches) = 2
  /\ fm.matches[1] # "" /\ fm.matches[2] # "" /\ fm.matches[1] # fm.matches[2]

\* C7: the stored formula holds a "/" in front of each matched key whose segment
\* stands right behind an "or" cue and no other "/"; without cues it holds no "/"
\* and no bracket; two matched segments joined by "and" give both keys once
\* each, in order, with no "/" between them; joined by "or" they give a "/"
\* between the two keys.
C7_SlashAtOr ==
  (fm.ran /\ ~fm.hang) =>
    /\ \A i \in SlotsBehindOr : SlashInFront(fm.matches[i], boolean_formula)
    /\ Cardinality(Occurrences("/", boolean_formula)) = Cardinality(SlotsBehindOr)
    /\ Len(fm.cues) = 0 =>
         \A c \in {"/", "(", ")"} : ~Contains(c, boolean_formula)
    /\ TwoJoinedBy("and") =>
         /\ Cardinality(Occurrences(fm.matches[1], boolean_formula)) = 1
         /\ Cardinality(Occurrences(fm.matches[2], boolean_formula)) = 1
         /\ InThisOrder(fm.matches[1], fm.matches[2], boolean_formula)
         /\ ~SlashBetween(fm.matches[1], fm.matches[2], boolean_formula)
    /\ TwoJoinedBy("or") =>
         SlashBetween(fm.matches[1], fm.matches[2], boolean_formula)

\* C8: every non-empty key of the matched-key list occurs in the formula the
\* stage stores on the handler.
C8_Complete ==
  (fm.ran /\ ~fm.hang) =>
    \A i \in 1..Len(fm.matches) :
      fm.matches[i] # "" => Contains(fm.matches[i], boolean_formula)

\* C9: when the cues hold both "and" and "or", the mode is "second" if and only
\* if the first cc arc is wider than the second and "first" otherwise, and with
\* fewer than two cc arcs neither mode is set and the detection does not fail;
\* when the cues do not hold both words neither mode is set.
C9_Grouping ==
  (fm.ran /\ ~fm.hang) =>
    IF {"and", "or"} \subseteq Range(fm.cues)
    THEN IF Len(arcs) >= 2
         THEN /\ fm.grouped
              /\ fm.second <=> arcs[1] > arcs[2]
              /\ fm.first <=> ~(arcs[1] > arcs[2])
         ELSE fm.grouped /\ ~fm.first /\ ~fm.second
    ELSE fm.grouped /\ ~fm.first /\ ~fm.second

\* the words of a raw-text segment hold a negative cue, a cue of either kind
HasNegative(seg) == synonym_wo \cap Range(SplitWs(seg)) # {}

HasCue(seg) == (synonym_wo \cup synonym_w) \cap Range(SplitWs(seg)) # {}

\* the segments up to segment k that hold a cue
CueSegments(segs, k) == {j \in 1..k : HasCue(segs[j])}

\* the sign of segment k: that of the nearest segment up to k that holds a cue,
\* "-" when that segment holds a negative cue, no sign when there is none
SignAt(segs, k) ==
  IF CueSegments(segs, k) = {} THEN ""
  ELSE LET j == CHOOSE x \in CueSegments(segs, k) : \A y \in CueSegments(segs, k) : y <= x
       IN IF HasNegative(segs[j]) THEN "-" ELSE "+"

\* the text of one emitted piece
Piece(e) == e.conj \o e.sign \o e.open \o e.key \o e.close

RECURSIVE Pieces(_, _)
Pieces(emitted, i) ==
  IF i > Len(emitted) THEN "" ELSE Piece(emitted[i]) \o Pieces(emitted, i + 1)

\* C10: the sign in front of a matched key is "-" if the words of its segment
\* hold a negative cue, else "+" if they hold a positive cue, else the sign of
\* the nearest earlier segment that holds a cue, matched or not, and no sign if
\* there is none; a segment without a matched key emits nothing, so the formula
\* the loop assembles is the pieces of the matched segments.
C10_Polarity ==
  fm.ran =>
    /\ \A e \in 1..Len(fm.emitted) :
         /\ fm.emitted[e].ind <= Len(fm.segs)
         /\ fm.emitted[e].key # ""
         /\ fm.emitted[e].key = fm.matches[fm.emitted[e].ind]
         /\ fm.emitted[e].sign = SignAt(fm.segs, fm.emitted[e].ind)
    /\ fm.looped =>
         /\ fm.assembled = Pieces(fm.emitted, 1)
         /\ {fm.emitted[e].ind : e \in 1..Len(fm.emitted)}
              = {k \in 1..Len(fm.segs) : fm.matches[k] # ""}

\* a matched segment without a cue takes the "+" of the segment in front of it,
\* which holds a positive cue and no matched key
C10_Witness ==
  /\ fm.ran
  /\ fm.looped
  /\ \E e \in 1..Len(fm.emitted) :
       LET k == fm.emitted[e].ind
       IN /\ k > 1
          /\ ~HasCue(fm.segs[k])
          /\ HasCue(fm.segs[k - 1])
          /\ fm.matches[k - 1] = ""
          /\ fm.emitted[e].sign = "+"

\* C11: the formula the stage stores has balanced brackets: at most one "(",
\* as many ")" as "(", and the ")" stands behind the "(".
C11_Balanced ==
  (fm.ran /\ ~fm.hang) =>
    /\ Cardinality(Occurrences("(", boolean_formula)) <= 1
    /\ Cardinality(Occurrences(")", boolean_formula))
         = Cardinality(Occurrences("(", boolean_formula))
    /\ \A i \in Occurrences("(", boolean_formula), j \in Occurrences(")", boolean_formula) :
         i < j

=============================================================================
